---- MODULE Spec2Model ----
(***************************************************************************)
(* Model of the BON Credit daily report: the event aggregation engine      *)
(* (AmplitudeClient.process_events and its helpers) and the entry point    *)
(* main() that feeds it.                                                   *)
(***************************************************************************)
EXTENDS Integers, Sequences, FiniteSets, TLC

(***************************************************************************)
(* Bounds of the model.                                                    *)
(***************************************************************************)
\* longest event sequence one pass consumes
MaxEvents == 3
\* most distinct screens one user views in a pass
MaxScreens == 17
\* longest batch the export hands to main
MaxBatch == 2
\* largest unique-user count fed to pct as numerator or denominator
MaxCount == 40
\* events of a pass over every event type
MaxKinds == 2

(***************************************************************************)
(* Python floats are IEEE-754 doubles.  The report's arithmetic            *)
(* (num / den * 100, total / 60, sum(...), total_mins / dau, round) is     *)
(* reproduced bit for bit: a non-negative double is held as the natural    *)
(* number V with value V * 2^-75, written little-endian in limbs of 15     *)
(* bits (five limbs of fraction), and every operation rounds its exact     *)
(* result to 53 significant bits, ties to even.  The representation is     *)
(* exact for the doubles of the report: values in [2^-12, 2^14] and zero,  *)
(* divisors below 2^11.                                                    *)
(***************************************************************************)
Limb == 32768
LimbBits == 15
MantissaBits == 53
FractionBits == 75

RECURSIVE BigNorm(_)
BigNorm(v) ==
    IF Len(v) > 0 /\ v[Len(v)] = 0 THEN BigNorm(SubSeq(v, 1, Len(v) - 1)) ELSE v

RECURSIVE BigFromInt(_)
BigFromInt(n) == IF n = 0 THEN << >> ELSE <<n % Limb>> \o BigFromInt(n \div Limb)

RECURSIVE BigToInt(_)
BigToInt(v) == IF Len(v) = 0 THEN 0 ELSE v[1] + Limb * BigToInt(Tail(v))

RECURSIVE BigMulCarry(_, _, _)
BigMulCarry(v, c, carry) ==
    IF Len(v) = 0 THEN BigFromInt(carry)
    ELSE LET p == v[1] * c + carry
         IN  <<p % Limb>> \o BigMulCarry(Tail(v), c, p \div Limb)

\* v * c for a small factor c (c <= Limb)
BigMulSmall(v, c) == BigNorm(BigMulCarry(v, c, 0))

RECURSIVE BigAddCarry(_, _, _)
BigAddCarry(v, w, carry) ==
    IF Len(v) = 0 /\ Len(w) = 0 THEN BigFromInt(carry)
    ELSE LET a == IF Len(v) = 0 THEN 0 ELSE v[1]
             b == IF Len(w) = 0 THEN 0 ELSE w[1]
             s == a + b + carry
         IN  <<s % Limb>>
               \o BigAddCarry(IF Len(v) = 0 THEN v ELSE Tail(v),
                              IF Len(w) = 0 THEN w ELSE Tail(w), s \div Limb)

BigAdd(v, w) == BigNorm(BigAddCarry(v, w, 0))

\* long division by a small divisor d (d <= Limb), most significant limb
\* first: [q |-> quotient, r |-> remainder]
RECURSIVE BigDivMod(_, _)
BigDivMod(v, d) ==
    IF Len(v) = 0 THEN [q |-> << >>, r |-> 0]
    ELSE LET hi  == BigDivMod(Tail(v), d)
             cur == hi.r * Limb + v[1]
         IN  [q |-> BigNorm(<<cur \div d>> \o hi.q), r |-> cur % d]

RECURSIVE Pow2(_)
Pow2(n) == IF n = 0 THEN 1 ELSE 2 * Pow2(n - 1)

RECURSIVE IntBitLen(_)
IntBitLen(n) == IF n = 0 THEN 0 ELSE 1 + IntBitLen(n \div 2)

BigBitLen(v) ==
    IF Len(v) = 0 THEN 0 ELSE LimbBits * (Len(v) - 1) + IntBitLen(v[Len(v)])

\* v * 2^n
RECURSIVE BigShiftLeft(_, _)
BigShiftLeft(v, n) ==
    IF Len(v) = 0 \/ n = 0 THEN v
    ELSE IF n >= LimbBits THEN <<0>> \o BigShiftLeft(v, n - LimbBits)
    ELSE BigMulSmall(v, Pow2(n))

\* floor(v / 2^n) and whether a non-zero bit was dropped
RECURSIVE BigShiftRight(_, _)
BigShiftRight(v, n) ==
    IF Len(v) = 0 \/ n = 0 THEN [q |-> v, sticky |-> FALSE]
    ELSE IF n >= LimbBits
         THEN LET rest == BigShiftRight(Tail(v), n - LimbBits)
              IN  [q |-> rest.q, sticky |-> rest.sticky \/ v[1] # 0]
         ELSE LET dm == BigDivMod(v, Pow2(n))
              IN  [q |-> dm.q, sticky |-> dm.r # 0]

\* round(v / 2^n) to the nearest integer, ties to even; sticky tells that the
\* exact value is a little above v
BigRoundShift(v, n, sticky) ==
    IF n = 0 THEN v
    ELSE LET w    == BigShiftRight(v, n - 1)
             dm   == BigDivMod(w.q, 2)
             odd  == Len(dm.q) > 0 /\ dm.q[1] % 2 = 1
             up   == dm.r = 1 /\ (w.sticky \/ sticky \/ odd)
         IN  IF up THEN BigAdd(dm.q, <<1>>) ELSE dm.q

\* the double nearest to the exact value v (+ a little, if sticky)
RoundToDouble(v, sticky) ==
    LET n == BigBitLen(v) - MantissaBits
    IN  IF n <= 0 THEN v ELSE BigShiftLeft(BigRoundShift(v, n, sticky), n)

\* float(n) for a small natural n
FloatOfInt(n) == IF n = 0 THEN << >> ELSE <<0, 0, 0, 0, 0>> \o BigFromInt(n)

\* x + y on doubles (adding zero is exact)
FloatAdd(x, y) ==
    IF Len(x) = 0 THEN y
    ELSE IF Len(y) = 0 THEN x
    ELSE RoundToDouble(BigAdd(x, y), FALSE)

\* x * c on doubles, c a small natural
FloatMul(x, c) ==
    IF Len(x) = 0 THEN x ELSE RoundToDouble(BigMulSmall(x, c), FALSE)

\* x / d on doubles, d a small positive natural: the quotient is taken with
\* one more limb of fraction, rounded, and the spare limb dropped
FloatDiv(x, d) ==
    IF Len(x) = 0 THEN x
    ELSE LET dm == BigDivMod(<<0>> \o x, d)
         IN  Tail(RoundToDouble(dm.q, dm.r # 0))

\* Python's round(x): nearest integer, ties to even
PyRound(x) ==
    IF Len(x) = 0 THEN 0 ELSE BigToInt(BigRoundShift(x, FractionBits, FALSE))

\* Python's round(x, 1), as the number of tenths of the result
PyRoundTenths(x) ==
    IF Len(x) = 0 THEN 0
    ELSE BigToInt(BigRoundShift(BigMulSmall(x, 10), FractionBits, FALSE))

(***************************************************************************)
(* Values of decoded event records.  A record holds only the keys the JSON *)
(* line carried; JSON null is Python's None.  Scalars are strings; an      *)
(* event_properties value is a record (a dict) or NoneDict (null).         *)
(***************************************************************************)
None == "None"
NoneDict == [is_none |-> TRUE]
\* _parse_time's None: datetimes are whole seconds since midnight
NoneTime == -1
\* the em dash U+2014 of the rate fields
EmDash == "<U+2014>"

\* dict.get(key, default)
Get(d, key, default) == IF key \in DOMAIN d THEN d[key] ELSE default

\* truth value of a str-or-None
Truthy(v) == v # None /\ v # ""

(***************************************************************************)
(* AmplitudeClient.__init__: the raw event-type string of every action,    *)
(* at its default.                                                         *)
(***************************************************************************)
DefaultConfig ==
    [install_event       |-> "[Amplitude] Application Installed",
     signup_started      |-> "sign_up_started_event",
     signup_completed    |-> "sign_up_completed_event",
     signup_failed       |-> "sign_up_failed",
     onboarding_complete |-> "onboarding_complete",
     onboarding_dropoff  |-> "onboarding_screen_drop_off",
     card_initiate       |-> "add_card_initiate",
     card_success        |-> "add_card_successful",
     card_failed         |-> "add_card_unsuccessful",
     bank_initiate       |-> "add_bank_initiate",
     bank_success        |-> "add_bank_successful",
     bank_failed         |-> "add_bank_unsuccessful",
     autopay_setup       |-> "autopay_setup_successful",
     autopay_enabled     |-> "autopay_enabled",
     income_added        |-> "add_income_successful",
     bill_pay_initiated  |-> "one_time_bill_payment_initiated",
     bill_pay_success    |-> "one_time_bill_payment_success",
     bill_pay_failed     |-> "one_time_bill_payment_failed",
     pay_bill_success    |-> "pay_bill_success",
     pay_bill_initiated  |-> "pay_bill_initiated",
     payment_failed      |-> "payment_failed",
     screen_event        |-> "common_screen_view_tracker",
     screen_property     |-> "screen_name",
     credgpt_started     |-> "credgpt_chat_started",
     credgpt_ended       |-> "credgpt_chat_ended",
     spinwheel_started   |-> "spinwheel_started",
     spinwheel_completed |-> "spinwheel_completed",
     reward_initiated    |-> "slot_reward_redeem_initiated",
     reward_success      |-> "slot_reward_redeem_successful",
     reward_failed       |-> "slot_reward_redeem_failed",
     notif_click         |-> "notification_click",
     churn_event         |-> "delete_membership",
     fraud_blocked       |-> "device_integrity_blocked",
     influencer_referral |-> "influencer_referral",
     payer_verified      |-> "payer_verified",
     select_debts        |-> "select_debts",
     extra_payment_set   |-> "extra_payment_set"]

(***************************************************************************)
(* process_events: the state of one pass.                                  *)
(***************************************************************************)
BucketNames ==
    {"installs", "signup_started", "signup_completed", "signup_failed",
     "onboarding_complete", "onboarding_dropoff", "card_initiated",
     "card_success", "card_failed", "bank_initiated", "bank_success",
     "bank_failed", "autopay_setup", "income_added", "bill_pay_initiated",
     "bill_pay_success", "bill_pay_failed", "credgpt_users",
     "spinwheel_users", "reward_success", "notif_clicks", "churned",
     "fraud_blocked", "influencer_referral", "payer_verified",
     "select_debts", "extra_payment_set", "all_active"}

\* buckets = {...: set()}
EmptyBuckets == [b \in BucketNames |-> {}]

\* the defaultdict factory of users
NewUser ==
    [user_id             |-> None,
     signup_started      |-> FALSE,
     signed_up           |-> FALSE,
     signup_failed       |-> FALSE,
     onboarding_complete |-> FALSE,
     card_linked         |-> FALSE,
     card_failed         |-> FALSE,
     bank_linked         |-> FALSE,
     bank_failed         |-> FALSE,
     autopay_setup       |-> FALSE,
     income_added        |-> FALSE,
     churned             |-> FALSE,
     fraud_blocked       |-> FALSE,
     used_credgpt        |-> FALSE,
     used_spinwheel      |-> FALSE,
     redeemed_reward     |-> FALSE,
     cards_count         |-> 0,
     banks_count         |-> 0,
     bill_payments_made  |-> 0,
     screens             |-> << >>,
     session_ids         |-> {},
     session_windows     |-> << >>,
     event_count         |-> 0]

FlagNames ==
    {"signup_started", "signed_up", "signup_failed", "onboarding_complete",
     "card_linked", "card_failed", "bank_linked", "bank_failed",
     "autopay_setup", "income_added", "churned", "fraud_blocked",
     "used_credgpt", "used_spinwheel", "redeemed_reward"}

\* the locals of process_events before the loop; user_order is the
\* insertion order of the users dict
InitialPass ==
    [buckets |-> EmptyBuckets, raw_counts |-> << >>, users |-> << >>,
     user_order |-> << >>]

(***************************************************************************)
(* _parse_time: the strings either format accepts, with the datetime each  *)
(* denotes (seconds since midnight of the day); any other string matches   *)
(* neither format and yields None.                                         *)
(***************************************************************************)
ParsedTimes ==
    [s \in {"2025-03-15 10:00:00", "2025-03-15 10:00:06",
            "2025-03-15 10:00:06.000000", "2025-03-15 10:00:12",
            "2025-03-15 10:00:18", "2025-03-15 10:05:00",
            "2025-03-15 10:06:00"} |->
        CASE s = "2025-03-15 10:00:00"        -> 36000
          [] s = "2025-03-15 10:00:06"        -> 36006
          [] s = "2025-03-15 10:00:06.000000" -> 36006
          [] s = "2025-03-15 10:00:12"        -> 36012
          [] s = "2025-03-15 10:00:18"        -> 36018
          [] s = "2025-03-15 10:05:00"        -> 36300
          [] s = "2025-03-15 10:06:00"        -> 36360]

_parse_time(time_str) ==
    IF time_str \in DOMAIN ParsedTimes THEN ParsedTimes[time_str] ELSE NoneTime

\* strptime raises TypeError, which _parse_time does not catch, when its
\* argument is not a str
ParseTimeRaises(time_str) == time_str = None

(***************************************************************************)
(* process_events: the body of the loop over the events.                   *)
(***************************************************************************)
\* uid = event.get("user_id") or event.get("device_id", "anonymous")
\* a variant that prefers the device id
CanonicalKeyDeviceFirst(event) ==
    IF Truthy(Get(event, "device_id", None))
      THEN Get(event, "device_id", None)
      ELSE Get(event, "user_id", "anonymous")

CanonicalKey(event) ==
    IF Truthy(Get(event, "user_id", None))
      THEN Get(event, "user_id", None)
      ELSE Get(event, "device_id", "anonymous")

\* a variant whose start stays where the first event put it
ExtendWindowEndOnly(w, t) ==
    [start |-> w.start,
     end   |-> IF t > w.end THEN t ELSE w.end]

\* a variant with the two comparisons exchanged
ExtendWindowOutsideIn(w, t) ==
    [start |-> IF t > w.start THEN t ELSE w.start,
     end   |-> IF t < w.end THEN t ELSE w.end]

\* a window already open takes one more timestamp:
\* if t < start: start = t; if t > end: end = t
ExtendWindow(w, t) ==
    [start |-> IF t < w.start THEN t ELSE w.start,
     end   |-> IF t > w.end THEN t ELSE w.end]

\* a variant that notes the session id of an event without a timestamp
TrackSessionUntimed(u, sid, t) ==
    IF Truthy(sid)
      THEN LET win == u.session_windows
           IN  [u EXCEPT
                 !.session_ids = @ \cup {sid},
                 !.session_windows =
                     IF t = NoneTime THEN win
                     ELSE IF sid \notin DOMAIN win
                       THEN (sid :> [start |-> t, end |-> t]) @@ win
                       ELSE [win EXCEPT ![sid] = ExtendWindow(@, t)]]
      ELSE u

\* a variant in which the start of a window follows the latest event
TrackSessionStartFollows(u, sid, t) ==
    IF Truthy(sid) /\ t # NoneTime
      THEN LET win == u.session_windows
           IN  [u EXCEPT
                 !.session_ids = @ \cup {sid},
                 !.session_windows =
                     IF sid \notin DOMAIN win
                       THEN (sid :> [start |-> t, end |-> t]) @@ win
                       ELSE [win EXCEPT
                              ![sid] = [start |-> t,
                                        end   |-> IF t > @.end THEN t ELSE @.end]]]
      ELSE u

\* a variant that keeps the windows and forgets the ids
TrackSessionWindowOnly(u, sid, t) ==
    IF Truthy(sid) /\ t # NoneTime
      THEN LET win == u.session_windows
           IN  [u EXCEPT
                 !.session_windows =
                     IF sid \notin DOMAIN win
                       THEN (sid :> [start |-> t, end |-> t]) @@ win
                       ELSE [win EXCEPT ![sid] = ExtendWindow(@, t)]]
      ELSE u

\* the session-window block: if sid and t: ...
TrackSession(u, sid, t) ==
    IF Truthy(sid) /\ t # NoneTime
      THEN LET win == u.session_windows
           IN  [u EXCEPT
                 !.session_ids = @ \cup {sid},
                 !.session_windows =
                     IF sid \notin DOMAIN win
                       THEN (sid :> [start |-> t, end |-> t]) @@ win
                       ELSE [win EXCEPT ![sid] = ExtendWindow(@, t)]]
      ELSE u

\* event.get("event_properties", {}), {} being the empty mapping
EventProperties(event) == Get(event, "event_properties", << >>)

\* the screen name read off a screen-view event
ScreenOf(self, event) ==
    LET props == EventProperties(event)
    IN  IF Truthy(Get(props, self.screen_property, None))
          THEN Get(props, self.screen_property, None)
          ELSE Get(props, "screen_name", "")

InSeq(x, seq) == \E i \in 1..Len(seq) : seq[i] = x

\* a variant that notes every view
TrackScreenEveryView(self, u, et, event) ==
    IF et = self.screen_event
      THEN LET screen == ScreenOf(self, event)
           IN  IF Truthy(screen)
                 THEN [u EXCEPT !.screens = Append(@, screen)]
                 ELSE u
      ELSE u

\* a variant that stops noting screens at the display length
TrackScreenCapped(self, u, et, event) ==
    IF et = self.screen_event
      THEN LET screen == ScreenOf(self, event)
           IN  IF Truthy(screen) /\ ~InSeq(screen, u.screens) /\ Len(u.screens) < 15
                 THEN [u EXCEPT !.screens = Append(@, screen)]
                 ELSE u
      ELSE u

\* the screen-tracking block: if et == self.screen_event: ...
TrackScreen(self, u, et, event) ==
    IF et = self.screen_event
      THEN LET screen == ScreenOf(self, event)
           IN  IF Truthy(screen) /\ ~InSeq(screen, u.screens)
                 THEN [u EXCEPT !.screens = Append(@, screen)]
                 ELSE u
      ELSE u

\* a variant that flips the flag
SetTrueToggle(u, flag) == [u EXCEPT ![flag] = ~@]

\* a variant that leaves the flag as it is
SetTrueSkipped(u, flag) == u

\* u[flag] = True
SetTrue(u, flag) == [u EXCEPT ![flag] = TRUE]

\* u[counter] += 1
Increment(u, counter) == [u EXCEPT ![counter] = @ + 1]

\* a variant that keeps the latest user of a bucket only
AddUserReplacing(buckets, name, uid) == [buckets EXCEPT ![name] = {uid}]

\* a variant that leaves all_active alone
AddUserButActive(buckets, name, uid) ==
    IF name = "all_active" THEN buckets
    ELSE [buckets EXCEPT ![name] = @ \cup {uid}]

\* buckets[name].add(uid)
AddUser(buckets, name, uid) == [buckets EXCEPT ![name] = @ \cup {uid}]

\* a variant that files an event of no configured type under installs
UnmatchedCounted(uid, u, buckets) ==
    [u |-> u, buckets |-> AddUser(buckets, "installs", uid)]

\* the chain has no else: an event type that no branch matches changes
\* nothing
Unmatched(uid, u, buckets) == [u |-> u, buckets |-> buckets]

\* a variant in which the two signup branches are two separate ifs
ClassifyEveryMatch(self, et, uid, u, buckets) ==
    LET started == IF et = self.signup_started
                     THEN [u |-> SetTrue(u, "signup_started"),
                           buckets |-> AddUser(buckets, "signup_started", uid)]
                     ELSE [u |-> u, buckets |-> buckets]
    IN  IF et = self.signup_completed
          THEN [u |-> SetTrue(started.u, "signed_up"),
                buckets |-> AddUser(started.buckets, "signup_completed", uid)]
          ELSE started

\* the if/elif chain over the event type: the first branch that matches, and
\* no other, is applied
Classify(self, et, uid, u, buckets) ==
    IF et = self.install_event
      THEN [u |-> u,
            buckets |-> AddUser(buckets, "installs", uid)]
    ELSE IF et = self.signup_started
      THEN [u |-> SetTrue(u, "signup_started"),
            buckets |-> AddUser(buckets, "signup_started", uid)]
    ELSE IF et = self.signup_completed
      THEN [u |-> SetTrue(u, "signed_up"),
            buckets |-> AddUser(buckets, "signup_completed", uid)]
    ELSE IF et = self.signup_failed
      THEN [u |-> SetTrue(u, "signup_failed"),
            buckets |-> AddUser(buckets, "signup_failed", uid)]
    ELSE IF et = self.onboarding_complete
      THEN [u |-> SetTrue(u, "onboarding_complete"),
            buckets |-> AddUser(buckets, "onboarding_complete", uid)]
    ELSE IF et = self.onboarding_dropoff
      THEN [u |-> u,
            buckets |-> AddUser(buckets, "onboarding_dropoff", uid)]
    ELSE IF et = self.card_initiate
      THEN [u |-> u,
            buckets |-> AddUser(buckets, "card_initiated", uid)]
    ELSE IF et = self.card_success
      THEN [u |-> Increment(SetTrue(u, "card_linked"), "cards_count"),
            buckets |-> AddUser(buckets, "card_success", uid)]
    ELSE IF et = self.card_failed
      THEN [u |-> SetTrue(u, "card_failed"),
            buckets |-> AddUser(buckets, "card_failed", uid)]
    ELSE IF et = self.bank_initiate
      THEN [u |-> u,
            buckets |-> AddUser(buckets, "bank_initiated", uid)]
    ELSE IF et = self.bank_success
      THEN [u |-> Increment(SetTrue(u, "bank_linked"), "banks_count"),
            buckets |-> AddUser(buckets, "bank_success", uid)]
    ELSE IF et = self.bank_failed
      THEN [u |-> SetTrue(u, "bank_failed"),
            buckets |-> AddUser(buckets, "bank_failed", uid)]
    ELSE IF et \in {self.autopay_setup, self.autopay_enabled}
      THEN [u |-> SetTrue(u, "autopay_setup"),
            buckets |-> AddUser(buckets, "autopay_setup", uid)]
    ELSE IF et = self.income_added
      THEN [u |-> SetTrue(u, "income_added"),
            buckets |-> AddUser(buckets, "income_added", uid)]
    ELSE IF et \in {self.bill_pay_initiated, self.pay_bill_initiated}
      THEN [u |-> u,
            buckets |-> AddUser(buckets, "bill_pay_initiated", uid)]
    ELSE IF et \in {self.bill_pay_success, self.pay_bill_success}
      THEN [u |-> Increment(u, "bill_payments_made"),
            buckets |-> AddUser(buckets, "bill_pay_success", uid)]
    ELSE IF et \in {self.bill_pay_failed, self.payment_failed}
      THEN [u |-> u,
            buckets |-> AddUser(buckets, "bill_pay_failed", uid)]
    ELSE IF et \in {self.credgpt_started, self.credgpt_ended}
      THEN [u |-> SetTrue(u, "used_credgpt"),
            buckets |-> AddUser(buckets, "credgpt_users", uid)]
    ELSE IF et \in {self.spinwheel_started, self.spinwheel_completed}
      THEN [u |-> SetTrue(u, "used_spinwheel"),
            buckets |-> AddUser(buckets, "spinwheel_users", uid)]
    ELSE IF et = self.reward_success
      THEN [u |-> SetTrue(u, "redeemed_reward"),
            buckets |-> AddUser(buckets, "reward_success", uid)]
    ELSE IF et = self.notif_click
      THEN [u |-> u,
            buckets |-> AddUser(buckets, "notif_clicks", uid)]
    ELSE IF et = self.churn_event
      THEN [u |-> SetTrue(u, "churned"),
            buckets |-> AddUser(buckets, "churned", uid)]
    ELSE IF et = self.fraud_blocked
      THEN [u |-> SetTrue(u, "fraud_blocked"),
            buckets |-> AddUser(buckets, "fraud_blocked", uid)]
    ELSE IF et = self.influencer_referral
      THEN [u |-> u,
            buckets |-> AddUser(buckets, "influencer_referral", uid)]
    ELSE IF et = self.payer_verified
      THEN [u |-> u,
            buckets |-> AddUser(buckets, "payer_verified", uid)]
    ELSE IF et = self.select_debts
      THEN [u |-> u,
            buckets |-> AddUser(buckets, "select_debts", uid)]
    ELSE IF et = self.extra_payment_set
      THEN [u |-> u,
            buckets |-> AddUser(buckets, "extra_payment_set", uid)]
    ELSE Unmatched(uid, u, buckets)

\* one iteration of the loop is abandoned with an exception, which
\* process_events does not catch: TypeError from strptime on a null
\* event_time, AttributeError from None.get on a null event_properties of a
\* screen-view event
LoopRaises(self, event) ==
    \/ ParseTimeRaises(Get(event, "event_time", ""))
    \/ /\ Get(event, "event_type", "") = self.screen_event
       /\ "is_none" \in DOMAIN EventProperties(event)

\* the head of an iteration, up to and with the session-window block: the
\* user's record is made if need be and counts the event, the key is in
\* all_active, the event type is tallied, the window is tracked
LoopHead(self, pass, event) ==
    LET uid == CanonicalKey(event)
        et  == Get(event, "event_type", "")
        sid == Get(event, "session_id", None)
        t   == _parse_time(Get(event, "event_time", ""))
        u0  == IF uid \in DOMAIN pass.users THEN pass.users[uid] ELSE NewUser
        u1  == [u0 EXCEPT !.user_id = uid, !.event_count = @ + 1]
        u2  == TrackSession(u1, sid, t)
    IN  [user_order |-> IF uid \in DOMAIN pass.users
                          THEN pass.user_order
                          ELSE Append(pass.user_order, uid),
         raw_counts |-> (et :> (Get(pass.raw_counts, et, 0) + 1)) @@ pass.raw_counts,
         users      |-> (uid :> u2) @@ pass.users,
         buckets    |-> AddUser(pass.buckets, "all_active", uid)]

\* one iteration of the loop, for an event that raises nothing
LoopBody(self, pass, event) ==
    LET uid  == CanonicalKey(event)
        et   == Get(event, "event_type", "")
        head == LoopHead(self, pass, event)
        u3   == TrackScreen(self, head.users[uid], et, event)
        cl   == Classify(self, et, uid, u3, head.buckets)
    IN  [head EXCEPT !.users = (uid :> cl.u) @@ @, !.buckets = cl.buckets]

\* what an iteration that raises leaves behind: nothing when _parse_time
\* raises, which comes before the first write; the head of the iteration when
\* the screen block raises
LoopBodyRaised(self, pass, event) ==
    IF ParseTimeRaises(Get(event, "event_time", ""))
      THEN pass
      ELSE LoopHead(self, pass, event)

(***************************************************************************)
(* process_events: what follows the loop.  A float with one decimal        *)
(* (time_spent_mins, avg_session_mins) is held as its number of tenths.    *)
(***************************************************************************)
\* the cohort records show u["screens"][:15]
CohortScreenCap == 15

c(buckets, key) == Cardinality(buckets[key])

\* f"{round(num / den * 100)}%" if den > 0 else the em dash
pct(num, den) ==
    IF den > 0
      THEN ToString(PyRound(FloatMul(FloatDiv(FloatOfInt(num), den), 100))) \o "%"
      ELSE EmDash

\* a variant that takes the windows for one stretch of time
WindowSecondsMerged(session_windows) ==
    IF DOMAIN session_windows = {} THEN 0
    ELSE LET last  == CHOOSE k \in DOMAIN session_windows :
                        \A j \in DOMAIN session_windows :
                          session_windows[j].end <= session_windows[k].end
             first == CHOOSE k \in DOMAIN session_windows :
                        \A j \in DOMAIN session_windows :
                          session_windows[k].start <= session_windows[j].start
         IN  session_windows[last].end - session_windows[first].start

\* sum of (end - start).total_seconds() over the windows: whole seconds,
\* which doubles add exactly
RECURSIVE WindowSeconds(_)
WindowSeconds(session_windows) ==
    IF DOMAIN session_windows = {} THEN 0
    ELSE LET sid  == CHOOSE k \in DOMAIN session_windows : TRUE
             rest == [k \in DOMAIN session_windows \ {sid} |-> session_windows[k]]
         IN  (session_windows[sid].end - session_windows[sid].start)
               + WindowSeconds(rest)

\* a variant that reports hours
_calc_session_time_hours(session_windows) ==
    PyRoundTenths(FloatDiv(FloatOfInt(WindowSeconds(session_windows)), 3600))

\* round(total / 60, 1), in tenths of a minute
_calc_session_time(session_windows) ==
    PyRoundTenths(FloatDiv(FloatOfInt(WindowSeconds(session_windows)), 60))

\* the double that a float of so many tenths is
FloatOfTenths(k) == FloatDiv(FloatOfInt(k), 10)

\* sum(...) over users.values(): left to right in the insertion order of the
\* dict, each partial sum rounded to a double
RECURSIVE SumSessionTime(_, _, _)
SumSessionTime(acc, users, order) ==
    IF Len(order) = 0 THEN acc
    ELSE SumSessionTime(
           FloatAdd(acc, FloatOfTenths(_calc_session_time(users[Head(order)].session_windows))),
           users, Tail(order))

\* round(total_mins / dau, 1), in tenths of a minute
_avg_session(users, order, dau) ==
    IF dau = 0 THEN 0
    ELSE PyRoundTenths(FloatDiv(SumSessionTime(FloatOfInt(0), users, order), dau))

FirstN(seq, n) == SubSeq(seq, 1, IF Len(seq) < n THEN Len(seq) ELSE n)

\* the record appended to new_signups for one user
SignupRecord(uid, u) ==
    [user_id             |-> uid,
     card_linked         |-> u.card_linked,
     card_failed         |-> u.card_failed,
     bank_linked         |-> u.bank_linked,
     bank_failed         |-> u.bank_failed,
     onboarding_complete |-> u.onboarding_complete,
     autopay_setup       |-> u.autopay_setup,
     used_credgpt        |-> u.used_credgpt,
     cards_count         |-> u.cards_count,
     banks_count         |-> u.banks_count,
     bill_payments_made  |-> u.bill_payments_made,
     screens             |-> FirstN(u.screens, CohortScreenCap),
     time_spent_mins     |-> _calc_session_time(u.session_windows),
     session_count       |-> Cardinality(u.session_ids),
     event_count         |-> u.event_count]

\* a variant that admits whoever started to sign up
InCohortStarted(u) == u.signup_started

\* the test that admits a user to the cohort: if u["signed_up"]
InCohort(u) == u.signed_up

\* for uid, u in users.items(): if u["signed_up"]: new_signups.append(...)
RECURSIVE CohortOf(_, _)
CohortOf(users, order) ==
    IF Len(order) = 0 THEN << >>
    ELSE (IF InCohort(users[Head(order)])
            THEN <<SignupRecord(Head(order), users[Head(order)])>>
            ELSE << >>) \o CohortOf(users, Tail(order))

\* a variant that shows the first signup alone
new_signups_first(pass) == FirstN(CohortOf(pass.users, pass.user_order), 1)

new_signups(pass) == CohortOf(pass.users, pass.user_order)

\* the dict process_events returns
Report(pass) ==
    LET dau == c(pass.buckets, "all_active")
    IN  [installs                  |-> c(pass.buckets, "installs"),
         signup_started            |-> c(pass.buckets, "signup_started"),
         signup_completed          |-> c(pass.buckets, "signup_completed"),
         signup_failed             |-> c(pass.buckets, "signup_failed"),
         onboarding_complete       |-> c(pass.buckets, "onboarding_complete"),
         onboarding_dropoff        |-> c(pass.buckets, "onboarding_dropoff"),
         install_to_signup_rate    |-> pct(c(pass.buckets, "signup_completed"), c(pass.buckets, "installs")),
         started_to_completed_rate |-> pct(c(pass.buckets, "signup_completed"), c(pass.buckets, "signup_started")),
         signup_to_onboarding_rate |-> pct(c(pass.buckets, "onboarding_complete"), c(pass.buckets, "signup_completed")),
         card_initiated            |-> c(pass.buckets, "card_initiated"),
         card_success              |-> c(pass.buckets, "card_success"),
         card_failed               |-> c(pass.buckets, "card_failed"),
         card_success_rate         |-> pct(c(pass.buckets, "card_success"), c(pass.buckets, "card_initiated")),
         bank_initiated            |-> c(pass.buckets, "bank_initiated"),
         bank_success              |-> c(pass.buckets, "bank_success"),
         bank_failed               |-> c(pass.buckets, "bank_failed"),
         bank_success_rate         |-> pct(c(pass.buckets, "bank_success"), c(pass.buckets, "bank_initiated")),
         autopay_setups            |-> c(pass.buckets, "autopay_setup"),
         income_added              |-> c(pass.buckets, "income_added"),
         payer_verified            |-> c(pass.buckets, "payer_verified"),
         select_debts              |-> c(pass.buckets, "select_debts"),
         extra_payment_set         |-> c(pass.buckets, "extra_payment_set"),
         bill_pay_initiated        |-> c(pass.buckets, "bill_pay_initiated"),
         bill_pay_success          |-> c(pass.buckets, "bill_pay_success"),
         bill_pay_failed           |-> c(pass.buckets, "bill_pay_failed"),
         bill_pay_success_rate     |-> pct(c(pass.buckets, "bill_pay_success"), c(pass.buckets, "bill_pay_initiated")),
         dau                       |-> dau,
         avg_session_mins          |-> _avg_session(pass.users, pass.user_order, dau),
         credgpt_users             |-> c(pass.buckets, "credgpt_users"),
         spinwheel_users           |-> c(pass.buckets, "spinwheel_users"),
         reward_redeemed           |-> c(pass.buckets, "reward_success"),
         notif_clicks              |-> c(pass.buckets, "notif_clicks"),
         churned                   |-> c(pass.buckets, "churned"),
         fraud_blocked             |-> c(pass.buckets, "fraud_blocked"),
         influencer_referrals      |-> c(pass.buckets, "influencer_referral"),
         new_signups               |-> new_signups(pass),
         new_signup_count          |-> c(pass.buckets, "signup_completed")]

RECURSIVE ProcessAll(_, _, _)
ProcessAll(self, pass, events) ==
    IF Len(events) = 0 THEN pass
    ELSE ProcessAll(self, LoopBody(self, pass, Head(events)), Tail(events))

\* process_events(events) raises: some event of the list raises in the loop
ProcessEventsRaises(self, events) ==
    \E i \in 1..Len(events) : LoopRaises(self, events[i])

\* process_events(events), when nothing raises
process_events(self, events) == Report(ProcessAll(self, InitialPass, events))

(***************************************************************************)
(* main(): the pieces of the run around process_events.                    *)
(***************************************************************************)
\* export_events makes at most this many requests: range(1, 4)
ExportAttempts == 3

\* the dict main builds itself when the export is empty
EmptyDayReport ==
    [total_active_users |-> 0,
     new_signup_count   |-> 0,
     card_linked_count  |-> 0,
     bank_linked_count  |-> 0,
     avg_session_mins   |-> 0,
     new_signups        |-> << >>,
     all_users          |-> << >>]

\* the keys main prints before the analysis step
PrintedKeys ==
    {"total_active_users", "new_signup_count", "card_linked_count",
     "bank_linked_count"}

\* the keys of d that analyze_with_claude reads before calling the API
AnalyzedKeys ==
    {"new_signups", "installs", "signup_started", "new_signup_count",
     "signup_failed", "onboarding_complete", "onboarding_dropoff",
     "install_to_signup_rate", "started_to_completed_rate",
     "signup_to_onboarding_rate", "card_initiated", "card_success",
     "card_failed", "card_success_rate", "bank_initiated", "bank_success",
     "bank_failed", "bank_success_rate", "autopay_setups", "income_added",
     "bill_pay_initiated", "bill_pay_success", "bill_pay_failed",
     "bill_pay_success_rate", "extra_payment_set", "dau",
     "avg_session_mins", "credgpt_users", "spinwheel_users",
     "reward_redeemed", "notif_clicks", "churned", "fraud_blocked",
     "influencer_referrals"}

\* what main substitutes when the analysis step raises
FallbackAnalysis ==
    [executive_summary |-> "Analysis unavailable " \o EmDash \o " Claude API error. See logs.",
     highlights        |-> "",
     watch_list        |-> ""]

\* what analyze_with_claude returns (the texts are the model's answer)
ClaudeAnalysis ==
    [executive_summary |-> "summary", highlights |-> "highlights",
     watch_list |-> "watch list", full_text |-> "text"]

\* def send_report(report_date, d, analysis)
SendReportParameters == {"report_date", "d", "analysis"}

\* the keyword arguments of main's call of send_report
SendReportKeywords ==
    {"report_date", "summary_metrics", "analysis", "new_signups"}

\* Python binds the call only if every keyword names a parameter and every
\* parameter gets a value; otherwise the call raises TypeError
SendReportCallBinds ==
    /\ SendReportKeywords \subseteq SendReportParameters
    /\ SendReportParameters \subseteq SendReportKeywords

(***************************************************************************)
(* The state of a run.                                                     *)
(***************************************************************************)
VARIABLES
    events,      \* process_events: the events the loop has consumed so far
    buckets,     \* process_events: the unique-action buckets
    raw_counts,  \* process_events: occurrences of each event type
    users,       \* process_events: the per-user records
    user_order,  \* process_events: the insertion order of users
    uid,         \* process_events: the key the last iteration resolved
    pc,          \* process_events: "loop", "done" (returned) or "raised"
    report,      \* process_events: the dict returned
    num,         \* pct: numerator
    den,         \* pct: denominator
    rate,        \* pct: the string returned
    main_pc,     \* main: where the run is
    date_arg,    \* main: the --date argument
    attempt,     \* export_events: the number of the next request
    response,    \* export_events: resp, with the events its content holds
    decoded,     \* export_events: the local list `events`
    raw_events,  \* main: the list export_events returned
    report_data, \* main: the dict handed to the analysis and email steps
    analysis,    \* main: the analysis handed to the email step
    config,      \* AmplitudeClient: the event-type strings __init__ read
    api_ok,      \* the analysis service answers the request of this run
    mail_ok      \* the mail service accepts the message of this run

engineVars == <<events, buckets, raw_counts, users, user_order, uid, pc, report>>
passVars == <<buckets, raw_counts, users, user_order>>
pctVars == <<num, den, rate>>
mainVars == <<main_pc, date_arg, attempt, response, decoded, raw_events,
              report_data, analysis>>

envVars == <<config, api_ok, mail_ok>>

vars == <<engineVars, pctVars, mainVars, envVars>>

\* no value yet
NoReport == [no_report |-> TRUE]
NoRate == "(not called)"
NoResponse == [no_response |-> TRUE]
\* an answer that raise_for_status rejects
ErrorResponse == [http_error |-> TRUE]
NoAnalysis == [no_analysis |-> TRUE]

\* the locals of the pass as one value
Pass ==
    [buckets |-> buckets, raw_counts |-> raw_counts, users |-> users,
     user_order |-> user_order]

InitEngine ==
    /\ events = << >>
    /\ buckets = InitialPass.buckets
    /\ raw_counts = InitialPass.raw_counts
    /\ users = InitialPass.users
    /\ user_order = InitialPass.user_order
    /\ uid = None
    /\ pc = "loop"
    /\ report = NoReport

InitPct ==
    /\ num = 0
    /\ den = 0
    /\ rate = NoRate

InitMain ==
    /\ main_pc = "start"
    /\ date_arg = None
    /\ attempt = 1
    /\ response = NoResponse
    /\ decoded = << >>
    /\ raw_events = << >>
    /\ report_data = NoReport
    /\ analysis = NoAnalysis

(***************************************************************************)
(* One pass of process_events, event by event.                             *)
(***************************************************************************)
\* one iteration of the loop of process_events
ProcessEvent(event) ==
    /\ pc = "loop"
    /\ ~LoopRaises(config, event)
    /\ LET next == LoopBody(config, Pass, event)
       IN  /\ buckets' = next.buckets
           /\ raw_counts' = next.raw_counts
           /\ users' = next.users
           /\ user_order' = next.user_order
    /\ uid' = CanonicalKey(event)
    /\ events' = Append(events, event)
    /\ UNCHANGED <<pc, report, pctVars, mainVars, envVars>>

\* an iteration that raises: the exception leaves process_events, with the
\* locals as the iteration had them at the raise
ProcessEventRaises(event) ==
    /\ pc = "loop"
    /\ LoopRaises(config, event)
    /\ LET next == LoopBodyRaised(config, Pass, event)
       IN  /\ buckets' = next.buckets
           /\ raw_counts' = next.raw_counts
           /\ users' = next.users
           /\ user_order' = next.user_order
    /\ uid' = CanonicalKey(event)
    /\ events' = Append(events, event)
    /\ pc' = "raised"
    /\ UNCHANGED <<report, pctVars, mainVars, envVars>>

\* the number of events whose iteration got past _parse_time and wrote to
\* the locals: all of them but one on which _parse_time raised
Counted ==
    IF pc = "raised" /\ ParseTimeRaises(Get(events[Len(events)], "event_time", ""))
      THEN Len(events) - 1
      ELSE Len(events)

\* the list is exhausted: derive the counts and rates and return the dict
ReturnReport ==
    /\ pc = "loop"
    /\ report' = Report(Pass)
    /\ pc' = "done"
    /\ UNCHANGED <<events, passVars, uid, pctVars, mainVars, envVars>>

\* the events a pass is fed
Events ==
    { [user_id |-> "u1", device_id |-> "d1",
       event_type |-> "sign_up_completed_event",
       event_time |-> "2025-03-15 10:00:00"],
      [user_id |-> "u1", device_id |-> "d1",
       event_type |-> "add_card_successful", session_id |-> "s1",
       event_time |-> "2025-03-15 10:00:00"],
      [user_id |-> "u1", event_type |-> "add_card_initiate",
       session_id |-> "s1", event_time |-> "2025-03-15 10:00:06.000000"],
      [user_id |-> "u1", event_type |-> "common_screen_view_tracker",
       session_id |-> "s2", event_time |-> "2025-03-15 10:00:18",
       event_properties |-> [screen_name |-> "home"]],
      [user_id |-> "u1", event_type |-> "app_open", session_id |-> "s2",
       event_time |-> "2025-03-15 10:00:12"],
      [user_id |-> "u2", event_type |-> "sign_up_started_event",
       session_id |-> "s1", event_time |-> "2025-03-15 10:00:06"],
      [user_id |-> "u2", event_type |-> "sign_up_completed_event",
       session_id |-> "s1", event_time |-> "2025-03-15 10:00:00"],
      [user_id |-> "u2", event_type |-> "add_card_initiate",
       session_id |-> "s1", event_time |-> "2025-03-15T10:00:18Z"],
      [user_id |-> "u2", event_type |-> "onboarding_complete",
       session_id |-> None, event_time |-> "2025-03-15 10:00:12"],
      [device_id |-> "d1",
       event_type |-> "[Amplitude] Application Installed",
       session_id |-> "s1", event_time |-> "2025-03-15 10:00:00"],
      [user_id |-> "", device_id |-> "d1",
       event_type |-> "sign_up_completed_event", session_id |-> "s1",
       event_time |-> "2025-03-15 10:00:12"],
      [user_id |-> None,
       event_type |-> "[Amplitude] Application Installed"],
      [event_type |-> "sign_up_started_event", session_id |-> "",
       event_time |-> ""],
      [user_id |-> None, device_id |-> None, event_type |-> None,
       session_id |-> None, event_time |-> "",
       event_properties |-> [screen_name |-> None]],
      [user_id |-> "u1", event_type |-> "add_card_successful",
       session_id |-> "s1", event_time |-> None],
      [user_id |-> "u2", event_type |-> "common_screen_view_tracker",
       session_id |-> "s1", event_time |-> "2025-03-15 10:00:06",
       event_properties |-> NoneDict] }

\* the client as __init__ leaves it with no variable of the environment set,
\* and services that answer
InitEnv ==
    /\ config = DefaultConfig
    /\ api_ok = TRUE
    /\ mail_ok = TRUE

Init == InitEngine /\ InitPct /\ InitMain /\ InitEnv

FeedEvent ==
    \E event \in Events : Len(events) < MaxEvents /\ ProcessEvent(event)

FeedRaisingEvent ==
    \E event \in Events : Len(events) < MaxEvents /\ ProcessEventRaises(event)

Next == FeedEvent \/ FeedRaisingEvent \/ ReturnReport

Spec == Init /\ [][Next]_vars

(***************************************************************************)
(* A pass over distinct events of four users, of which three spend 0.1,    *)
(* 0.2 and 0.3 minutes in a session: every order of the seven events.      *)
(***************************************************************************)
OrderEvents ==
    { [user_id |-> "a", event_type |-> "app_open", session_id |-> "s1",
       event_time |-> "2025-03-15 10:00:00"],
      [user_id |-> "a", event_type |-> "app_open", session_id |-> "s1",
       event_time |-> "2025-03-15 10:00:06"],
      [user_id |-> "b", event_type |-> "sign_up_completed_event",
       session_id |-> "s1", event_time |-> "2025-03-15 10:00:00"],
      [user_id |-> "b", event_type |-> "add_card_successful",
       session_id |-> "s1", event_time |-> "2025-03-15 10:00:12"],
      [user_id |-> "c", event_type |-> "add_card_initiate",
       session_id |-> "s1", event_time |-> "2025-03-15 10:00:00"],
      [user_id |-> "c", event_type |-> "app_open", session_id |-> "s1",
       event_time |-> "2025-03-15 10:00:18"],
      [user_id |-> "d", event_type |-> "app_open"] }

FeedDistinctEvent ==
    \E event \in OrderEvents : ~InSeq(event, events) /\ ProcessEvent(event)

NextOrder == FeedDistinctEvent \/ ReturnReport

SpecOrder == Init /\ [][NextOrder]_vars

(***************************************************************************)
(* pct as a function of its two counts.                                    *)
(***************************************************************************)
InitCounts ==
    /\ InitEngine
    /\ InitMain
    /\ InitEnv
    /\ num \in 0..MaxCount
    /\ den \in 0..MaxCount
    /\ rate = NoRate

CallPct ==
    /\ rate = NoRate
    /\ rate' = pct(num, den)
    /\ UNCHANGED <<num, den, engineVars, mainVars, envVars>>

SpecPct == InitCounts /\ [][CallPct]_vars

(***************************************************************************)
(* main(): one daily run.                                                  *)
(***************************************************************************)
\* the values of --date: not given, a date, and a string that is not
\* YYYY-MM-DD
DateArgs == {None, "2025-03-15", "15/03/2025"}

\* datetime.strptime(args.date, "%Y-%m-%d") accepts the string
IsDate(date) == date \in {"2025-03-15"}

\* the decoded events an export can hold
ExportedEvents ==
    { [user_id |-> "u1", event_type |-> "sign_up_completed_event",
       event_time |-> "2025-03-15 10:00:00"],
      [user_id |-> "u1", event_type |-> "add_card_successful",
       session_id |-> "s1", event_time |-> "2025-03-15 10:05:00"],
      [user_id |-> "u1", event_type |-> "common_screen_view_tracker",
       session_id |-> "s1", event_time |-> "2025-03-15 10:06:00",
       event_properties |-> [screen_name |-> "home"]],
      [device_id |-> "d1", event_type |-> "delete_membership",
       session_id |-> "s1", event_time |-> None] }

Batches ==
    UNION {[1..n -> ExportedEvents] : n \in 0..MaxBatch}

InitRun ==
    /\ InitEngine
    /\ InitPct
    /\ main_pc = "start"
    /\ date_arg \in DateArgs
    /\ attempt = 1
    /\ response = NoResponse
    /\ decoded = << >>
    /\ raw_events = << >>
    /\ report_data = NoReport
    /\ analysis = NoAnalysis
    /\ config = DefaultConfig
    /\ api_ok \in BOOLEAN
    /\ mail_ok \in BOOLEAN

\* a variant that goes on with whatever --date holds
MainParseDateLenient ==
    /\ main_pc = "start"
    /\ main_pc' = "export"
    /\ UNCHANGED <<date_arg, attempt, response, decoded, raw_events, report_data, analysis,
                   engineVars, pctVars, envVars>>

\* if args.date: strptime or exit(1); else yesterday
MainParseDate ==
    /\ main_pc = "start"
    /\ main_pc' = IF Truthy(date_arg) /\ ~IsDate(date_arg) THEN "exit1" ELSE "export"
    /\ UNCHANGED <<date_arg, attempt, response, decoded, raw_events, report_data, analysis,
                   engineVars, pctVars, envVars>>

\* a variant whose list `events` is made once, before the first attempt
ExportSucceedsKeeping(batch) ==
    /\ main_pc = "export"
    /\ attempt <= ExportAttempts
    /\ response' = [content |-> batch]
    /\ decoded' = decoded \o batch
    /\ raw_events' = decoded'
    /\ main_pc' = "fetched"
    /\ UNCHANGED <<date_arg, attempt, report_data, analysis, engineVars, pctVars, envVars>>

\* one attempt of export_events succeeds: events = [], every event of the
\* body is appended, return events
ExportSucceeds(batch) ==
    /\ main_pc = "export"
    /\ attempt <= ExportAttempts
    /\ response' = [content |-> batch]
    /\ decoded' = batch
    /\ raw_events' = decoded'
    /\ main_pc' = "fetched"
    /\ UNCHANGED <<date_arg, attempt, report_data, analysis, engineVars, pctVars, envVars>>

\* the next attempt, or after the last one RuntimeError, which main answers
\* with exit(1)
ExportRetry ==
    /\ IF attempt < ExportAttempts
         THEN attempt' = attempt + 1 /\ main_pc' = main_pc
         ELSE attempt' = attempt /\ main_pc' = "exit1"
    /\ UNCHANGED <<date_arg, raw_events, report_data, analysis, engineVars, pctVars, envVars>>

\* one attempt of export_events fails in requests.get: resp and `events`
\* keep what an earlier attempt left in them
ExportRequestFails ==
    /\ main_pc = "export"
    /\ attempt <= ExportAttempts
    /\ response' = response
    /\ decoded' = decoded
    /\ ExportRetry

\* one attempt of export_events fails in raise_for_status: resp is the
\* answer with the error status, whose content is not read, and `events`
\* keeps what an earlier attempt left in it
ExportStatusFails ==
    /\ main_pc = "export"
    /\ attempt <= ExportAttempts
    /\ response' = ErrorResponse
    /\ decoded' = decoded
    /\ ExportRetry

\* one attempt of export_events fails while it decodes the body (a broken
\* archive or stream): events = [], the first n events are appended, and the
\* exception leaves them behind
ExportDecodeFails(batch, n) ==
    /\ main_pc = "export"
    /\ attempt <= ExportAttempts
    /\ response' = [content |-> batch]
    /\ decoded' = SubSeq(batch, 1, n)
    /\ ExportRetry

\* if not raw_events: the literal dict; else process_events(raw_events),
\* whose exceptions main does not catch
MainBuildReport ==
    /\ main_pc = "fetched"
    /\ IF Len(raw_events) = 0
         THEN report_data' = EmptyDayReport /\ main_pc' = "print"
         ELSE IF ProcessEventsRaises(config, raw_events)
                THEN report_data' = report_data /\ main_pc' = "uncaught"
                ELSE /\ report_data' = process_events(config, raw_events)
                     /\ main_pc' = "print"
    /\ UNCHANGED <<date_arg, attempt, response, decoded, raw_events, analysis, engineVars, pctVars, envVars>>

\* the four print lines index report_data; a missing key is a KeyError that
\* main does not catch
MainPrint ==
    /\ main_pc = "print"
    /\ main_pc' = IF PrintedKeys \subseteq DOMAIN report_data
                    THEN "analyze" ELSE "uncaught"
    /\ UNCHANGED <<date_arg, attempt, response, decoded, raw_events, report_data, analysis,
                   engineVars, pctVars, envVars>>

\* analyze_with_claude raises on a missing key of d or on an API error, and
\* main then substitutes the fallback
MainAnalyze ==
    /\ main_pc = "analyze"
    /\ analysis' = IF AnalyzedKeys \subseteq DOMAIN report_data /\ api_ok
                    THEN ClaudeAnalysis ELSE FallbackAnalysis
    /\ main_pc' = "send"
    /\ UNCHANGED <<date_arg, attempt, response, decoded, raw_events, report_data, engineVars, pctVars, envVars>>

\* send_report(...) inside try: any exception ends the run with exit(1)
MainSend ==
    /\ main_pc = "send"
    /\ main_pc' = IF SendReportCallBinds /\ "churned" \in DOMAIN report_data /\ mail_ok
                   THEN "delivered" ELSE "exit1"
    /\ UNCHANGED <<date_arg, attempt, response, decoded, raw_events, report_data, analysis,
                   engineVars, pctVars, envVars>>

NextMain ==
    \/ MainParseDate
    \/ \E batch \in Batches : ExportSucceeds(batch)
    \/ \E batch \in Batches : \E n \in 0..Len(batch) : ExportDecodeFails(batch, n)
    \/ ExportRequestFails
    \/ ExportStatusFails
    \/ MainBuildReport
    \/ MainPrint
    \/ MainAnalyze
    \/ MainSend

SpecMain == InitRun /\ [][NextMain]_vars

(***************************************************************************)
(* Properties of the pass (Spec).                                          *)
(***************************************************************************)
\* C1: the new_signups list that process_events returns holds one record
\* for each user key whose signed_up flag is true at the end of the pass,
\* and no record for any other key.
C1_CohortIsSignedUp ==
    pc = "done" =>
      LET cohort == report.new_signups
          keys   == {k \in DOMAIN users : users[k].signed_up}
      IN  /\ {cohort[i].user_id : i \in 1..Len(cohort)} = keys
          /\ Len(cohort) = Cardinality(keys)

\* a returned cohort of one user or more, beside a user who started to sign
\* up, did other things, and is not in it
C1_Witness ==
    /\ pc = "done"
    /\ Len(report.new_signups) >= 1
    /\ \E k \in DOMAIN users :
         /\ ~users[k].signed_up
         /\ users[k].signup_started
         /\ users[k].event_count >= 2

\* C3: the key of an event is its user_id if that is present and not empty,
\* else its device_id if that is present, else "anonymous"; an event with
\* neither field gets "anonymous", and the key always names a user record.
C3_IdentityPrecedence ==
    (pc # "raised" /\ Len(events) > 0) =>
      LET e == events[Len(events)]
      IN  /\ uid = IF "user_id" \in DOMAIN e /\ e.user_id \notin {None, ""}
                     THEN e.user_id
                     ELSE IF "device_id" \in DOMAIN e THEN e.device_id
                     ELSE "anonymous"
          /\ ("user_id" \notin DOMAIN e /\ "device_id" \notin DOMAIN e)
               => uid = "anonymous"
          /\ uid \in DOMAIN users
          /\ uid \in buckets["all_active"]
          /\ users[uid].user_id = uid

\* an event with both fields has been resolved to its user_id, and before it
\* an event with neither field to "anonymous"
C3_Witness ==
    /\ pc = "loop"
    /\ Len(events) >= 2
    /\ LET e == events[Len(events)]
       IN  /\ "user_id" \in DOMAIN e /\ "device_id" \in DOMAIN e
           /\ e.user_id = "u1" /\ e.device_id = "d1"
           /\ uid = "u1"
    /\ \E i \in 1..(Len(events) - 1) :
         /\ "user_id" \notin DOMAIN events[i]
         /\ "device_id" \notin DOMAIN events[i]
    /\ "anonymous" \in DOMAIN users

\* C4: a pass over a sequence that holds one extra copy of one of its events
\* differs from the pass over the sequence without the copy in this only:
\* the owner's event_count and the tally of the event's type are greater by
\* one.  Bucket sizes and every flag of every user are the same.
C4_DuplicateEvent ==
    pc # "raised" =>
      \A j \in 1..Len(events) :
        (\E i \in 1..Len(events) : i # j /\ events[i] = events[j]) =>
          LET e      == events[j]
              others == [i \in 1..(Len(events) - 1) |->
                           IF i < j THEN events[i] ELSE events[i + 1]]
              before == ProcessAll(DefaultConfig, InitialPass, others)
              owner  == CanonicalKey(e)
              et     == Get(e, "event_type", "")
          IN  /\ DOMAIN users = DOMAIN before.users
              /\ users[owner].event_count = before.users[owner].event_count + 1
              /\ raw_counts[et] = before.raw_counts[et] + 1
              /\ \A b \in BucketNames :
                   Cardinality(buckets[b]) = Cardinality(before.buckets[b])
              /\ \A k \in DOMAIN users : \A f \in FlagNames :
                   users[k][f] = before.users[k][f]

\* the same flag-setting, bucket-filling event has been processed twice
C4_Witness ==
    /\ pc = "loop"
    /\ Len(events) >= 2
    /\ events[1] = events[2]
    /\ Get(events[1], "event_type", "") = "add_card_successful"
    /\ users["u1"].card_linked
    /\ users["u1"].event_count >= 2
    /\ Cardinality(buckets["card_success"]) = 1

\* C6: every session window has start <= end, and the window of a session
\* of which one event with a parsable timestamp has been processed has
\* start = end.
C6_WindowOrdered ==
    LET processed == Counted
    IN  \A k \in DOMAIN users :
          \A sid \in DOMAIN users[k].session_windows :
            LET w    == users[k].session_windows[sid]
                seen == {i \in 1..processed :
                           /\ CanonicalKey(events[i]) = k
                           /\ Get(events[i], "session_id", None) = sid
                           /\ _parse_time(Get(events[i], "event_time", "")) # NoneTime}
            IN  /\ w.start <= w.end
                /\ Cardinality(seen) = 1 => w.start = w.end

\* one user has a window that two events at different times have stretched
\* and a window that one event opened
C6_Witness ==
    \E k \in DOMAIN users :
      \E s1, s2 \in DOMAIN users[k].session_windows :
        /\ users[k].session_windows[s1].start < users[k].session_windows[s1].end
        /\ s2 # s1
        /\ users[k].session_windows[s2].start = users[k].session_windows[s2].end

\* C7: processing one more event never lowers a user's time spent: neither
\* the sum of end - start over the user's windows nor the minutes
\* _calc_session_time makes of it.
C7_TimeSpentMonotone ==
    [][\A k \in DOMAIN users :
         /\ k \in DOMAIN users'
         /\ WindowSeconds(users'[k].session_windows)
              >= WindowSeconds(users[k].session_windows)
         /\ _calc_session_time(users'[k].session_windows)
              >= _calc_session_time(users[k].session_windows)]_vars

\* a user has spent time in a session, and three events have been processed
C7_Witness ==
    /\ Len(events) = MaxEvents
    /\ pc = "loop"
    /\ \E k \in DOMAIN users :
         /\ WindowSeconds(users[k].session_windows) > 0
         /\ _calc_session_time(users[k].session_windows) > 0
         /\ users[k].event_count = MaxEvents

\* C8: the size of every bucket is at most the size of all_active, which is
\* the number of user keys seen and at most the number of events processed.
C8_BucketBounds ==
    LET processed == Counted
        active    == Cardinality(buckets["all_active"])
    IN  /\ \A b \in BucketNames : Cardinality(buckets[b]) <= active
        /\ active = Cardinality(DOMAIN users)
        /\ active <= processed

\* two users are active, both are in one bucket, and there are more events
\* than users
C8_Witness ==
    /\ Cardinality(buckets["all_active"]) = 2
    /\ Cardinality(buckets["signup_completed"]) = 2
    /\ Len(events) = 3
    /\ pc = "loop"

\* C10: process_events completes and returns a report whatever fields of
\* its events are absent or null: no event makes the pass raise.
C10_NeverAborts == pc # "raised"

(***************************************************************************)
(* Properties of pct (SpecPct), of the order of the events (SpecOrder) and *)
(* of a run of main (SpecMain).                                            *)
(***************************************************************************)
\* C2: a rate is the em dash when its denominator is 0 and otherwise "<n>%"
\* with n = round(100*num/den), the quotient 100*num/den rounded to the
\* nearest integer (a tie to the even one, as round does).
C2_SafeDivisionLaw ==
    rate # NoRate =>
      rate = IF den = 0
               THEN EmDash
               ELSE LET q == (100 * num) \div den
                        r == (100 * num) % den
                        n == IF 2 * r < den THEN q
                             ELSE IF 2 * r > den THEN q + 1
                             ELSE IF q % 2 = 0 THEN q ELSE q + 1
                    IN  ToString(n) \o "%"

\* C5: a pass over a permutation of the events yields the same counts, rate
\* strings, dau and avg_session_mins, and for every user the same flags,
\* counters, session_count and time_spent_mins.  Exchanging two neighbours
\* of the sequence, which generates every permutation, changes none of them.
C5_OrderIndependence ==
    pc = "done" =>
      LET Scalars(r) == [r EXCEPT !.new_signups = Len(@)]
          PerUser(p) ==
            [k \in DOMAIN p.users |->
               [p.users[k] EXCEPT
                  !.screens = Len(@),
                  !.session_ids = Cardinality(@),
                  !.session_windows = _calc_session_time(@)]]
          Exchange(s, i) ==
            [j \in 1..Len(s) |->
               IF j = i THEN s[i + 1] ELSE IF j = i + 1 THEN s[i] ELSE s[j]]
      IN  \A i \in 1..(Len(events) - 1) :
            LET other == ProcessAll(DefaultConfig, InitialPass, Exchange(events, i))
            IN  /\ Scalars(Report(other)) = Scalars(report)
                /\ PerUser(other) = PerUser(Pass)

\* C9: the report main hands on when the export returns no events has the
\* key set of the report of a non-empty batch, every count and
\* avg_session_mins 0, every rate the em dash and new_signups empty.
C9_EmptyBatchReport ==
    (report_data # NoReport /\ Len(raw_events) = 0) =>
      /\ DOMAIN report_data = DOMAIN Report(InitialPass)
      /\ \A key \in DOMAIN report_data :
           report_data[key] =
             IF key = "new_signups" THEN << >>
             ELSE IF key \in {"install_to_signup_rate", "started_to_completed_rate",
                              "signup_to_onboarding_rate", "card_success_rate",
                              "bank_success_rate", "bill_pay_success_rate"}
               THEN EmDash
             ELSE 0

(***************************************************************************)
(* Further properties of the pass (Spec).                                  *)
(***************************************************************************)
\* C11: an event without a session id, or with an event_time string that
\* matches neither format, changes no session window and no session-id set;
\* the owner's event_count still goes up by one, the owner is in all_active,
\* and flags, counters, buckets and tallies are what the same event with a
\* valid timestamp and a session id would make them.
C11_UntimedEventStillCounted ==
    [][(pc' = "loop" /\ Len(events') = Len(events) + 1) =>
         LET e    == events'[Len(events')]
             k    == CanonicalKey(e)
             old  == IF k \in DOMAIN users THEN users[k] ELSE NewUser
             twin == ("event_time" :> "2025-03-15 10:00:00")
                       @@ ("session_id" :> "s1") @@ e
             same == LoopBody(config, Pass, twin)
         IN  (\/ ~Truthy(Get(e, "session_id", None))
              \/ _parse_time(Get(e, "event_time", "")) = NoneTime) =>
               /\ users'[k].session_windows = old.session_windows
               /\ users'[k].session_ids = old.session_ids
               /\ \A j \in DOMAIN users : j # k => users'[j] = users[j]
               /\ users'[k].event_count = old.event_count + 1
               /\ k \in buckets'["all_active"]
               /\ buckets' = same.buckets
               /\ raw_counts' = same.raw_counts
               /\ \A f \in FlagNames \cup {"cards_count", "banks_count",
                                           "bill_payments_made", "event_count",
                                           "screens"} :
                    users'[k][f] = same.users[k][f]]_vars

\* a user with an open session window has fired add_card_initiate with a
\* timestamp of neither format, and is in the card_initiated bucket
C11_Witness ==
    /\ pc = "loop"
    /\ Len(events) >= 2
    /\ LET e == events[Len(events)]
       IN  /\ Get(e, "event_type", "") = "add_card_initiate"
           /\ Get(e, "event_time", "") = "2025-03-15T10:00:18Z"
           /\ CanonicalKey(e) = "u2"
    /\ "u2" \in buckets["card_initiated"]
    /\ DOMAIN users["u2"].session_windows = {"s1"}
    /\ users["u2"].event_count >= 2

\* C12: the new_signups list of the report is in ascending order of the
\* user key (the order of the strings: "d1" before "u1" before "u2").
C12_CohortSortedByKey ==
    pc = "done" =>
      LET cohort  == report.new_signups
          Rank(k) == CASE k = "anonymous" -> 1
                       [] k = "d1" -> 2
                       [] k = "u1" -> 3
                       [] k = "u2" -> 4
                       [] OTHER -> 0
      IN  \A i, j \in 1..Len(cohort) :
            i < j => Rank(cohort[i].user_id) < Rank(cohort[j].user_id)

\* C14: an event whose type is none of the client's event-type strings puts
\* its key in all_active, adds one to the tally of its type and to the
\* owner's event_count, and changes no other bucket, no flag, no other
\* counter and no other user.
C14_UnmatchedEventFrame ==
    [][(pc' = "loop" /\ Len(events') = Len(events) + 1) =>
         LET e   == events'[Len(events')]
             k   == CanonicalKey(e)
             et  == Get(e, "event_type", "")
             old == IF k \in DOMAIN users THEN users[k] ELSE NewUser
         IN  et \notin {config[f] : f \in DOMAIN config \ {"screen_property"}} =>
               /\ buckets' = [buckets EXCEPT !["all_active"] = @ \cup {k}]
               /\ raw_counts'[et] = Get(raw_counts, et, 0) + 1
               /\ \A t \in DOMAIN raw_counts : t # et => raw_counts'[t] = raw_counts[t]
               /\ DOMAIN raw_counts' = DOMAIN raw_counts \cup {et}
               /\ users'[k].event_count = old.event_count + 1
               /\ \A f \in FlagNames \cup {"cards_count", "banks_count",
                                           "bill_payments_made", "screens"} :
                    users'[k][f] = old[f]
               /\ \A j \in DOMAIN users : j # k => users'[j] = users[j]]_vars

\* a user who signed up and linked a card has then fired app_open, a type
\* the client does not know
C14_Witness ==
    /\ pc = "loop"
    /\ Len(events) = 3
    /\ Get(events[3], "event_type", "") = "app_open"
    /\ CanonicalKey(events[3]) = "u1"
    /\ users["u1"].signed_up
    /\ users["u1"].cards_count = 1
    /\ raw_counts["app_open"] = 1

\* C15: in every step of the pass no flag of a user goes from true to
\* false, none of cards_count, banks_count, bill_payments_made and
\* event_count goes down, no user record disappears, and no key leaves a
\* bucket.
C15_MonotoneUserState ==
    [][/\ \A k \in DOMAIN users :
            /\ k \in DOMAIN users'
            /\ \A f \in FlagNames : users[k][f] => users'[k][f]
            /\ \A n \in {"cards_count", "banks_count", "bill_payments_made",
                         "event_count"} : users'[k][n] >= users[k][n]
       /\ \A b \in BucketNames : buckets[b] \subseteq buckets'[b]]_vars

\* after three events two users are in the signup_completed bucket and one
\* of them has a flag set and a counter raised
C15_Witness ==
    /\ pc = "loop"
    /\ Len(events) = 3
    /\ Cardinality(buckets["signup_completed"]) = 2
    /\ \E k \in DOMAIN users :
         /\ users[k].signed_up
         /\ users[k].event_count = 2

\* C20: the window of a user's session starts at the least and ends at the
\* greatest of the parsed timestamps of the user's processed events of that
\* session, in whatever order they came; and every session with such an
\* event has a window.
C20_WindowIsMinMax ==
    LET processed == Counted
        Times(k, sid) ==
          {_parse_time(Get(events[i], "event_time", "")) :
             i \in {j \in 1..processed :
                      /\ CanonicalKey(events[j]) = k
                      /\ Get(events[j], "session_id", None) = sid
                      /\ _parse_time(Get(events[j], "event_time", "")) # NoneTime}}
    IN  \A k \in DOMAIN users :
          /\ \A sid \in DOMAIN users[k].session_windows :
               LET w == users[k].session_windows[sid]
               IN  /\ w.start \in Times(k, sid)
                   /\ w.end \in Times(k, sid)
                   /\ \A t \in Times(k, sid) : w.start <= t /\ t <= w.end
          /\ \A i \in 1..processed :
               (/\ CanonicalKey(events[i]) = k
                /\ Truthy(Get(events[i], "session_id", None))
                /\ _parse_time(Get(events[i], "event_time", "")) # NoneTime)
                 => events[i].session_id \in DOMAIN users[k].session_windows

\* the later of two events of one session arrived first, and the window
\* starts at the earlier one
C20_Witness ==
    /\ pc = "loop"
    /\ Len(events) >= 2
    /\ CanonicalKey(events[1]) = "u1" /\ CanonicalKey(events[2]) = "u1"
    /\ Get(events[1], "session_id", None) = "s2"
    /\ Get(events[2], "session_id", None) = "s2"
    /\ _parse_time(Get(events[1], "event_time", ""))
         > _parse_time(Get(events[2], "event_time", ""))
    /\ _parse_time(Get(events[2], "event_time", "")) # NoneTime
    /\ users["u1"].session_windows["s2"].start
         = _parse_time(Get(events[2], "event_time", ""))
    /\ users["u1"].session_windows["s2"].end
         = _parse_time(Get(events[1], "event_time", ""))

(***************************************************************************)
(* A pass of a client whose event-type strings were set through the        *)
(* environment (SpecConfig).                                               *)
(***************************************************************************)
\* three events of user u1: a signup-completed event of the given raw type
\* without a session, then a linked card and a view of the home screen in
\* session s1
Scenario(signup_type) ==
    << [user_id |-> "u1", event_type |-> signup_type,
        event_time |-> "2025-03-15 10:00:00"],
       [user_id |-> "u1", event_type |-> "add_card_successful",
        event_time |-> "2025-03-15 10:05:00", session_id |-> "s1"],
       [user_id |-> "u1", event_type |-> "common_screen_view_tracker",
        event_time |-> "2025-03-15 10:06:00", session_id |-> "s1",
        event_properties |-> [screen_name |-> "home"]] >>

\* the client's strings: the defaults; SIGNUP_EVENT set to "signup_completed";
\* SIGNUP_EVENT set to the string of SIGNUP_STARTED_EVENT; CARD_LINKED_EVENT
\* set to the string of SCREEN_EVENT and BANK_LINKED_EVENT to the string of
\* CARD_INITIATE_EVENT
Configs ==
    { DefaultConfig,
      [DefaultConfig EXCEPT !.signup_completed = "signup_completed"],
      [DefaultConfig EXCEPT !.signup_completed = "sign_up_started_event"],
      [DefaultConfig EXCEPT !.card_success = "common_screen_view_tracker",
                            !.bank_success = "add_card_initiate"] }

ConfigEvents ==
    {Scenario(client.signup_completed)[i] : client \in Configs, i \in 1..3}
    \cup
    { [user_id |-> "u2", event_type |-> "sign_up_started_event",
       session_id |-> "s1", event_time |-> "2025-03-15 10:00:00"],
      [user_id |-> "u2", event_type |-> "add_card_initiate",
       session_id |-> "s1", event_time |-> "2025-03-15 10:00:06"] }

InitConfig ==
    /\ InitEngine
    /\ InitPct
    /\ InitMain
    /\ config \in Configs
    /\ api_ok = TRUE
    /\ mail_ok = TRUE

FeedConfigEvent ==
    \E event \in ConfigEvents :
      /\ Len(events) < MaxEvents
      /\ ~InSeq(event, events)
      /\ ProcessEvent(event)

NextConfig == FeedConfigEvent \/ ReturnReport

SpecConfig == InitConfig /\ [][NextConfig]_vars

\* what the scenario is to yield: one signup, one linked card, and a cohort
\* of u1 alone with the card, the home screen, one session and 1.0 minutes
ScenarioOutcome ==
    /\ report.signup_completed = 1
    /\ report.card_success = 1
    /\ Len(report.new_signups) = 1
    /\ report.new_signups[1].user_id = "u1"
    /\ report.new_signups[1].card_linked = TRUE
    /\ report.new_signups[1].cards_count = 1
    /\ report.new_signups[1].screens = <<"home">>
    /\ report.new_signups[1].session_count = 1
    /\ report.new_signups[1].time_spent_mins = 10

\* C13, as stated: the three events, the first of event_type
\* "signup_completed", yield the outcome above.
C13_ScenarioAsStated ==
    (pc = "done" /\ events = Scenario("signup_completed")) => ScenarioOutcome

\* C13, amended: the three events yield the outcome above when the first is
\* of the raw type the client is configured with for a completed signup
\* ("sign_up_completed_event" unless SIGNUP_EVENT is set), every other string
\* of the client is its default, and the signup string is none of them.  When
\* the signup string is also the string of started signups, the first event
\* counts as started and the scenario yields no signup at all.
C13_ScenarioConfiguredType ==
    (pc = "done" /\ events = Scenario(config.signup_completed)) =>
      /\ (/\ [config EXCEPT !.signup_completed = DefaultConfig.signup_completed]
               = DefaultConfig
          /\ \A name \in DOMAIN config \ {"signup_completed"} :
               config[name] # config.signup_completed) => ScenarioOutcome
      /\ config.signup_completed = config.signup_started =>
           /\ report.signup_completed = 0
           /\ report.signup_started = 1
           /\ report.new_signups = << >>

\* the pass over the three events with the default signup string has returned
C13_Witness ==
    /\ pc = "done"
    /\ config = DefaultConfig
    /\ events = Scenario("sign_up_completed_event")
    /\ Len(report.new_signups) = 1

\* C19: an event is attributed to one kind at most, also by a client of
\* which two kinds have the same string: processed on its own or after other
\* events, it fills at most one bucket besides all_active, sets at most one
\* flag and raises at most one of cards_count, banks_count and
\* bill_payments_made, by one.
C19_FirstMatchWins ==
    [][(pc' = "loop" /\ Len(events') = Len(events) + 1) =>
         LET e        == events'[Len(events')]
             k        == CanonicalKey(e)
             old      == IF k \in DOMAIN users THEN users[k] ELSE NewUser
             alone    == LoopBody(config, InitialPass, e)
             Counters == {"cards_count", "banks_count", "bill_payments_made"}
         IN  /\ Cardinality({b \in BucketNames \ {"all_active"} :
                               alone.buckets[b] # {}}) <= 1
             /\ Cardinality({f \in FlagNames : alone.users[k][f]}) <= 1
             /\ Cardinality({n \in Counters : alone.users[k][n] # 0}) <= 1
             /\ \A n \in Counters : alone.users[k][n] <= 1
             /\ Cardinality({b \in BucketNames \ {"all_active"} :
                               buckets'[b] # buckets[b]}) <= 1
             /\ Cardinality({f \in FlagNames : users'[k][f] # old[f]}) <= 1
             /\ Cardinality({n \in Counters : users'[k][n] # old[n]}) <= 1
             /\ \A n \in Counters : users'[k][n] <= old[n] + 1]_vars

\* a client for which completed and started signups have one string has
\* processed an event of that type: it counts as started and not as completed
C19_Witness ==
    /\ pc = "loop"
    /\ config.signup_completed = config.signup_started
    /\ "u2" \in buckets["signup_started"]
    /\ "u2" \notin buckets["signup_completed"]
    /\ users["u2"].signup_started
    /\ ~users["u2"].signed_up

(***************************************************************************)
(* A pass in which one user signs up and then views screen after screen,   *)
(* coming back once to a screen already seen (SpecScreens).                *)
(***************************************************************************)
ViewerSignup ==
    [user_id |-> "u1", event_type |-> "sign_up_completed_event"]

ScreenView(n) ==
    [user_id |-> "u1", event_type |-> "common_screen_view_tracker",
     event_properties |-> [screen_name |-> "screen" \o ToString(n)]]

FeedSignup ==
    /\ Len(events) = 0
    /\ ProcessEvent(ViewerSignup)

FeedNewScreen ==
    /\ "u1" \in DOMAIN users
    /\ Len(users["u1"].screens) < MaxScreens
    /\ ProcessEvent(ScreenView(Len(users["u1"].screens) + 1))

FeedRepeatedScreen ==
    /\ "u1" \in DOMAIN users
    /\ Len(events) = Len(users["u1"].screens) + 1
    /\ \E n \in 1..Len(users["u1"].screens) : ProcessEvent(ScreenView(n))

UnnamedScreenView ==
    [user_id |-> "u1", event_type |-> "common_screen_view_tracker",
     event_properties |-> [screen_name |-> ""]]

FeedUnnamedScreen ==
    /\ "u1" \in DOMAIN users
    /\ Len(users["u1"].screens) >= CohortScreenCap
    /\ ~InSeq(UnnamedScreenView, events)
    /\ ProcessEvent(UnnamedScreenView)

NextScreens ==
    \/ FeedSignup
    \/ FeedNewScreen
    \/ FeedRepeatedScreen
    \/ FeedUnnamedScreen
    \/ ReturnReport

SpecScreens == Init /\ [][NextScreens]_vars

\* C16: the screens of every record of new_signups are pairwise different,
\* are screens the user viewed, stand in the order of their first views, and
\* are the first 15 distinct screens the user viewed (all of them when there
\* are fewer).
C16_CohortScreens ==
    pc = "done" =>
      \A r \in 1..Len(report.new_signups) :
        LET scr      == report.new_signups[r].screens
            Views(s) == {i \in 1..Len(events) :
                           /\ CanonicalKey(events[i]) = report.new_signups[r].user_id
                           /\ Get(events[i], "event_type", "") = config.screen_event
                           /\ ScreenOf(config, events[i]) = s}
            seen     == {ScreenOf(config, events[i]) : i \in 1..Len(events)}
            viewed   == {s \in seen : Truthy(s) /\ Views(s) # {}}
            First(s) == CHOOSE i \in Views(s) : \A j \in Views(s) : i <= j
        IN  /\ \A i, j \in 1..Len(scr) : i # j => scr[i] # scr[j]
            /\ \A i \in 1..Len(scr) : scr[i] \in viewed
            /\ \A i, j \in 1..Len(scr) : i < j => First(scr[i]) < First(scr[j])
            /\ Len(scr) <= 15
            /\ Len(scr) = IF Cardinality(viewed) < 15 THEN Cardinality(viewed) ELSE 15
            /\ \A s \in viewed :
                 (\A i \in 1..Len(scr) : scr[i] # s) =>
                   \A i \in 1..Len(scr) : First(scr[i]) < First(s)

\* the user has viewed more than 15 distinct screens, one of them twice, and
\* the returned record shows 15
C16_Witness ==
    /\ pc = "done"
    /\ Len(report.new_signups) = 1
    /\ Len(report.new_signups[1].screens) = 15
    /\ Len(users["u1"].screens) > 15
    /\ Len(events) > Len(users["u1"].screens) + 1

\* C22, as stated: the screen list of a user's state never holds more than
\* the display length of 15 screens.
C22_StateListCapped ==
    \A k \in DOMAIN users : Len(users[k].screens) <= CohortScreenCap

\* C22, amended: the screen list of a user's state is an ordered set without
\* a cap: a view appends its screen exactly when the screen is non-empty and
\* not yet in the list, whatever the length of the list, and leaves the list
\* alone otherwise; the display length applies to the list of the cohort
\* record only.
C22_StateListUncapped ==
    [][\A k \in DOMAIN users' :
         LET before == IF k \in DOMAIN users THEN users[k].screens ELSE << >>
             after  == users'[k].screens
             event  == events'[Len(events')]
             screen == ScreenOf(config, event)
         IN  /\ \A i, j \in 1..Len(after) : i # j => after[i] # after[j]
             /\ Len(events') = Len(events) + 1 =>
                   after = IF /\ CanonicalKey(event) = k
                              /\ Get(event, "event_type", "") = config.screen_event
                              /\ screen # ""
                              /\ ~InSeq(screen, before)
                             THEN Append(before, screen)
                             ELSE before
             /\ pc' = "done" =>
                   \A r \in 1..Len(report'.new_signups) :
                     report'.new_signups[r].user_id = k =>
                       report'.new_signups[r].screens = FirstN(after, CohortScreenCap)
      ]_vars

\* the state holds 17 distinct screens of a user whose record shows 15, after
\* a repeated view and an unnamed one
C22_Witness ==
    /\ pc = "done"
    /\ "u1" \in DOMAIN users
    /\ Len(users["u1"].screens) = MaxScreens
    /\ MaxScreens > CohortScreenCap
    /\ Len(report.new_signups[1].screens) = CohortScreenCap
    /\ Len(events) = MaxScreens + 3

(***************************************************************************)
(* Further properties of a run of main (SpecMain).                         *)
(***************************************************************************)
\* C17: a run whose export succeeds with no events, and whose mail service
\* accepts the message, does not end with exit status 1 or an exception: it
\* goes on to deliver the report.
C17_EmptyDayDelivered ==
    (Len(raw_events) = 0 /\ report_data # NoReport /\ mail_ok) =>
      main_pc \notin {"exit1", "uncaught"}

\* C18: a run whose export returns a non-empty batch that process_events
\* accepts, and whose analysis and mail services both succeed, does not end
\* with exit status 1 or an exception: it goes on through analysis and email
\* to delivery.
C18_NonEmptyDayDelivered ==
    (/\ Len(raw_events) > 0
     /\ ~ProcessEventsRaises(config, raw_events)
     /\ api_ok
     /\ mail_ok) =>
      main_pc \notin {"exit1", "uncaught"}

(***************************************************************************)
(* Agreement of the parts of the state and of the report (Spec).           *)
(***************************************************************************)
\* C27: the session ids of a user are the keys of the user's session
\* windows, so the session count is the number of windows; they are the ids
\* of the user's events that carry a session id and a timestamp that parses,
\* and an id seen only with timestamps that do not parse is in neither.  (An
\* event whose timestamp makes _parse_time raise has left nothing behind.)
C27_SessionIdsAreWindowKeys ==
    \A k \in DOMAIN users :
      LET met   == Counted
          Timed == {Get(events[i], "session_id", None) :
                      i \in {j \in 1..met :
                               /\ CanonicalKey(events[j]) = k
                               /\ Truthy(Get(events[j], "session_id", None))
                               /\ ~ParseTimeRaises(Get(events[j], "event_time", ""))
                               /\ _parse_time(Get(events[j], "event_time", "")) # NoneTime}}
      IN  /\ users[k].session_ids = DOMAIN users[k].session_windows
          /\ Cardinality(users[k].session_ids)
               = Cardinality(DOMAIN users[k].session_windows)
          /\ users[k].session_ids = Timed
          /\ pc = "done" =>
               \A r \in 1..Len(report.new_signups) :
                 report.new_signups[r].user_id = k =>
                   report.new_signups[r].session_count
                     = Cardinality(DOMAIN users[k].session_windows)

\* u1 has signed up and has one timed event of session s1: one id, one
\* window, session_count 1; u2 has met s1 only with a timestamp that does
\* not parse and has no id and no window
C27_Witness ==
    /\ pc = "done"
    /\ Len(report.new_signups) = 1
    /\ report.new_signups[1].user_id = "u1"
    /\ report.new_signups[1].session_count = 1
    /\ DOMAIN users["u1"].session_windows = {"s1"}
    /\ "u2" \in DOMAIN users
    /\ users["u2"].session_ids = {}
    /\ DOMAIN users["u2"].session_windows = {}
    /\ \E i \in 1..Len(events) :
         /\ CanonicalKey(events[i]) = "u2"
         /\ Get(events[i], "session_id", None) = "s1"
         /\ _parse_time(Get(events[i], "event_time", "")) = NoneTime

\* C28: the report's new_signup_count and signup_completed are the length
\* of new_signups, and dau is the number of user records; all_active is the
\* key set of the user records, and every processed event is counted once,
\* in the event_count of the user it belongs to, so that the event counts
\* add up to the number of events processed.
C28_CountsAgree ==
    LET met == Counted
    IN  /\ buckets.all_active = DOMAIN users
        /\ \A i \in 1..met : CanonicalKey(events[i]) \in DOMAIN users
        /\ \A k \in DOMAIN users :
             users[k].event_count
               = Cardinality({i \in 1..met : CanonicalKey(events[i]) = k})
        /\ pc = "done" =>
             /\ report.new_signup_count = report.signup_completed
             /\ report.new_signup_count = Len(report.new_signups)
             /\ report.dau = Cardinality(DOMAIN users)
             /\ report.dau = Cardinality(buckets.all_active)

\* three events of three users, two of whom have signed up
C28_Witness ==
    /\ pc = "done"
    /\ Len(events) = 3
    /\ report.dau = 3
    /\ report.new_signup_count = 2
    /\ Len(report.new_signups) = 2
    /\ \A k \in DOMAIN users : users[k].event_count = 1

(***************************************************************************)
(* A pass over the events of two users in sessions that overlap in time    *)
(* and share their ids: every order of the six events (SpecSessions).      *)
(***************************************************************************)
SessionEvents ==
    { [user_id |-> "u1", event_type |-> "sign_up_completed_event",
       session_id |-> "s1", event_time |-> "2025-03-15 10:00:00"],
      [user_id |-> "u1", event_type |-> "common_screen_view_tracker",
       session_id |-> "s1", event_time |-> "2025-03-15 10:00:12",
       event_properties |-> [screen_name |-> "cards"]],
      [user_id |-> "u1", event_type |-> "common_screen_view_tracker",
       session_id |-> "s2", event_time |-> "2025-03-15 10:00:06",
       event_properties |-> [screen_name |-> "pay"]],
      [user_id |-> "u1", event_type |-> "common_screen_view_tracker",
       session_id |-> "s2", event_time |-> "2025-03-15 10:00:18",
       event_properties |-> [screen_name |-> "home"]],
      [user_id |-> "u2", event_type |-> "common_screen_view_tracker",
       session_id |-> "s1", event_time |-> "2025-03-15 10:00:06",
       event_properties |-> [screen_name |-> "pay"]],
      [user_id |-> "u2", event_type |-> "common_screen_view_tracker",
       session_id |-> "s1", event_time |-> "2025-03-15 10:00:12",
       event_properties |-> [screen_name |-> "home"]] }

FeedSessionEvent ==
    \E event \in SessionEvents : ~InSeq(event, events) /\ ProcessEvent(event)

NextSessions == FeedSessionEvent \/ ReturnReport

SpecSessions == Init /\ [][NextSessions]_vars

\* C21: windows are kept per user and session id and are not merged: the
\* window of a user's session spans the timestamps of that user's events of
\* that session and of no other user's, and the user's time spent is the sum
\* of the lengths of the user's windows, each in full, also when they
\* overlap.
C21_WindowsNotMerged ==
    LET Times(k, sid) ==
          {_parse_time(Get(events[i], "event_time", "")) :
             i \in {j \in 1..Len(events) :
                      /\ CanonicalKey(events[j]) = k
                      /\ Get(events[j], "session_id", None) = sid}}
        Least(S)    == CHOOSE t \in S : \A x \in S : t <= x
        Greatest(S) == CHOOSE t \in S : \A x \in S : x <= t
        Span(k, sid) == IF Times(k, sid) = {} THEN 0
                        ELSE Greatest(Times(k, sid)) - Least(Times(k, sid))
    IN  \A k \in DOMAIN users :
          /\ DOMAIN users[k].session_windows
               = {sid \in {"s1", "s2"} : Times(k, sid) # {}}
          /\ \A sid \in DOMAIN users[k].session_windows :
               users[k].session_windows[sid]
                 = [start |-> Least(Times(k, sid)), end |-> Greatest(Times(k, sid))]
          /\ WindowSeconds(users[k].session_windows)
               = Span(k, "s1") + Span(k, "s2")
          /\ _calc_session_time(users[k].session_windows)
               = PyRoundTenths(FloatDiv(FloatOfInt(Span(k, "s1") + Span(k, "s2")), 60))

\* u1 has two sessions of 12 seconds that overlap by 6 and has spent 24
\* seconds; u2 has a session of the same id s1 with a window of its own
C21_Witness ==
    /\ pc = "loop"
    /\ Len(events) = 6
    /\ users["u1"].session_windows["s1"] = [start |-> 36000, end |-> 36012]
    /\ users["u1"].session_windows["s2"] = [start |-> 36006, end |-> 36018]
    /\ WindowSeconds(users["u1"].session_windows) = 24
    /\ users["u2"].session_windows["s1"] = [start |-> 36006, end |-> 36012]

\* C23: the screens list of every user, in the state and in the cohort
\* record, depends on the times of the events alone and not on their place
\* in the input: exchanging two neighbours of the input, which generates
\* every permutation and changes no timestamp, changes no list.
C23_ScreensByEventTime ==
    pc = "done" =>
      LET Exchange(s, i) ==
            [j \in 1..Len(s) |->
               IF j = i THEN s[i + 1] ELSE IF j = i + 1 THEN s[i] ELSE s[j]]
          Screens(p) == [k \in DOMAIN p.users |-> p.users[k].screens]
          Shown(r) == {<<r.new_signups[n].user_id, r.new_signups[n].screens>> :
                         n \in 1..Len(r.new_signups)}
      IN  \A i \in 1..(Len(events) - 1) :
            LET other == ProcessAll(config, InitialPass, Exchange(events, i))
            IN  /\ Screens(other) = Screens(Pass)
                /\ Shown(Report(other)) = Shown(report)

(***************************************************************************)
(* The export, the analysis and the exits of a run of main (SpecMain).     *)
(***************************************************************************)
\* C24: export_events makes at most 3 requests, returns the events of the
\* body of the first attempt that succeeds and nothing an earlier, failed
\* attempt had decoded, makes no request after a success, and raises
\* RuntimeError exactly when the third attempt has failed too.
C24_ExportRetries ==
    [][/\ attempt \in 1..ExportAttempts /\ attempt' \in 1..ExportAttempts
       /\ main_pc' = "fetched" =>
            /\ main_pc = "export"
            /\ attempt' = attempt
            /\ response' \notin {NoResponse, ErrorResponse}
            /\ raw_events' = response'.content
       /\ (main_pc = "export" /\ main_pc' = "export") =>
            /\ attempt' = attempt + 1
            /\ raw_events' = << >>
            /\ decoded' \in Batches
            /\ (response' # response /\ response' # ErrorResponse) =>
                 decoded' = SubSeq(response'.content, 1, Len(decoded'))
       /\ (main_pc = "export" /\ main_pc' = "exit1") =>
            /\ attempt = ExportAttempts
            /\ raw_events' = << >>
       /\ (main_pc = "export" /\ attempt = ExportAttempts) =>
            main_pc' \in {"fetched", "exit1"}
       /\ main_pc \notin {"start", "export"} =>
            /\ <<attempt, response, decoded, raw_events>>'
                 = <<attempt, response, decoded, raw_events>>
            /\ main_pc' # "export"
      ]_vars

\* the third request succeeds after two attempts that failed, and the list
\* returned holds the one event of the third body
C24_Witness ==
    /\ main_pc = "fetched"
    /\ attempt = ExportAttempts
    /\ response \notin {NoResponse, ErrorResponse}
    /\ Len(response.content) = 1
    /\ raw_events = response.content
    /\ analysis = NoAnalysis

\* C25: when the analysis raises, main puts the fallback analysis in its
\* place and goes on to the email step; and the run ends with exit status 1
\* (sys.exit(1), or an exception nothing catches) only in the date check on
\* an invalid --date, in the export after its last failure, or in the email
\* step.
C25_ExitOneCauses ==
    [][/\ main_pc = "analyze" =>
            /\ main_pc' = "send"
            /\ ~(AnalyzedKeys \subseteq DOMAIN report_data /\ api_ok) =>
                 analysis' = FallbackAnalysis
       /\ (main_pc' \in {"exit1", "uncaught"} /\ main_pc' # main_pc) =>
            \/ main_pc = "start" /\ Truthy(date_arg) /\ ~IsDate(date_arg)
            \/ main_pc = "export" /\ attempt = ExportAttempts
            \/ main_pc = "send"
      ]_vars

\* C26: the steps after the export (process_events, the analysis, the
\* email) are taken only in a run whose date was accepted and whose export
\* returned: a run with an invalid --date exits with status 1 straight from
\* the date check, a run whose export raises exits with status 1 from the
\* export, both without a report, an analysis or a send, and nothing follows
\* an exit.
C26_NothingAfterFailedExport ==
    [][/\ main_pc \notin {"exit1", "uncaught", "delivered"}
       /\ (main_pc = "start" /\ Truthy(date_arg) /\ ~IsDate(date_arg)) =>
            main_pc' = "exit1"
       /\ (main_pc \in {"start", "export"} /\ main_pc' = "exit1") =>
            /\ raw_events' = << >>
            /\ report_data' = NoReport
            /\ analysis' = NoAnalysis
       /\ main_pc \in {"fetched", "print", "analyze", "send"} =>
            /\ ~Truthy(date_arg) \/ IsDate(date_arg)
            /\ response \notin {NoResponse, ErrorResponse}
            /\ raw_events = response.content
       /\ report_data' # report_data => main_pc = "fetched"
       /\ analysis' # analysis => main_pc = "analyze" /\ report_data # NoReport
       /\ main_pc' = "delivered" => main_pc = "send" /\ analysis # NoAnalysis
      ]_vars

\* the export has failed three times and the run has ended with status 1
\* with nothing processed, analysed or sent
C26_Witness ==
    /\ main_pc = "exit1"
    /\ IsDate(date_arg)
    /\ attempt = ExportAttempts
    /\ decoded # << >>
    /\ report_data = NoReport
    /\ analysis = NoAnalysis

(***************************************************************************)
(* A pass over events of every configured type (SpecKinds).                *)
(***************************************************************************)
\* every event-type string of the client, and one it does not know
EventTypes ==
    {DefaultConfig[name] : name \in DOMAIN DefaultConfig \ {"screen_property"}}
      \cup {"app_open"}

KindEvents ==
    {[user_id |-> "u1", event_type |-> et] : et \in EventTypes}
      \cup {[user_id |-> "u2", event_type |-> et] :
              et \in {DefaultConfig.signup_completed, DefaultConfig.card_success,
                      DefaultConfig.pay_bill_success}}

FeedKindEvent ==
    /\ Len(events) < MaxKinds
    /\ \E event \in KindEvents : ProcessEvent(event)

NextKinds == FeedKindEvent \/ ReturnReport

SpecKinds == Init /\ [][NextKinds]_vars

\* C29: for every user each flag is set exactly when the user's key is in
\* the bucket of the flag: signed_up and signup_completed, card_linked and
\* card_success, bank_linked and bank_success, used_credgpt and
\* credgpt_users, used_spinwheel and spinwheel_users, redeemed_reward and
\* reward_success, and signup_started, signup_failed, onboarding_complete,
\* card_failed, bank_failed, autopay_setup, income_added, churned and
\* fraud_blocked with the bucket of the same name; cards_count is positive
\* exactly when card_linked, banks_count exactly when bank_linked, and
\* bill_payments_made exactly when the key is in bill_pay_success.
C29_FlagsAgreeWithBuckets ==
    LET BucketOf ==
          [signed_up           |-> "signup_completed",
           card_linked         |-> "card_success",
           bank_linked         |-> "bank_success",
           signup_started      |-> "signup_started",
           signup_failed       |-> "signup_failed",
           onboarding_complete |-> "onboarding_complete",
           card_failed         |-> "card_failed",
           bank_failed         |-> "bank_failed",
           autopay_setup       |-> "autopay_setup",
           income_added        |-> "income_added",
           churned             |-> "churned",
           fraud_blocked       |-> "fraud_blocked",
           used_credgpt        |-> "credgpt_users",
           used_spinwheel      |-> "spinwheel_users",
           redeemed_reward     |-> "reward_success"]
    IN  \A k \in DOMAIN users :
          /\ \A flag \in DOMAIN BucketOf :
               users[k][flag] <=> k \in buckets[BucketOf[flag]]
          /\ users[k].cards_count > 0 <=> users[k].card_linked
          /\ users[k].banks_count > 0 <=> users[k].bank_linked
          /\ users[k].bill_payments_made > 0 <=> k \in buckets.bill_pay_success

\* u1 has linked a card in two events and is in card_success with
\* cards_count 2 and no other flag set
C29_Witness ==
    /\ "u1" \in DOMAIN users
    /\ users["u1"].card_linked
    /\ users["u1"].cards_count = MaxKinds
    /\ "u1" \in buckets.card_success
    /\ ~users["u1"].bank_linked
    /\ "u1" \notin buckets.bank_success

====
